---- MODULE Spec2Model ----
(***************************************************************************)
(* Sidecar lifecycle manager of the Liteskill desktop shell                *)
(* (src-tauri/src/main.rs): port negotiation, sidecar spawn, readiness     *)
(* probe, window creation, and the graceful-then-forced shutdown           *)
(* kill_sidecar, which the startup error arms and the quit / window-close  *)
(* / exit-request handlers all call.                                       *)
(*                                                                         *)
(* Option<T> values are sequences: None is << >> and Some(x) is <<x>>.     *)
(* Durations are in milliseconds.                                          *)
(***************************************************************************)
EXTENDS Integers, Sequences, FiniteSets, TLC

\* ---------------------------------------------------------------- constants

SERVER_READY_TIMEOUT == 120000

SERVER_READY_POLL == 200

GRACEFUL_SHUTDOWN_TIMEOUT == 3000

\* std::thread::sleep(Duration::from_millis(100)) in the liveness loop.
SHUTDOWN_POLL == 100

PREFERRED_PORTS == <<4000, 3000, 5173>>

\* Ports the OS hands out for a bind to port 0 (never a preferred port).
EphemeralPorts == {49152, 49153}

\* Navigation requests followed per launch.
MaxNavigations == 2

\* One loop iteration takes its sleep plus the time of the OS call it makes
\* (a spawned kill / tasklist command, a TCP connect): up to MaxOverhead
\* further whole poll intervals.
MaxOverhead == 1

None == << >>

Some(x) == <<x>>

\* The threads that call kill_sidecar: the setup closure (its two error
\* arms) and the three event handlers.
Callers == {"setup", "quit", "close", "exit"}

VARIABLES
    mode,            \* "prod" | "dev": LITESKILL_DEV
    platform,        \* "unix" | "windows": the cfg the binary was built for
    busy,            \* preferred ports on which a bind fails
    stage,           \* position of main / the setup closure / the event loop
    negotiated,      \* Option<Result>: what find_free_port returned
    port,            \* Option<u16>: the port chosen for this launch
    failure,         \* which startup error arm was taken ("none" if none)
    exitCode,        \* Option<int>: status the process exited with
    windowCreated,   \* the main window was built
    sidecar_child,   \* AppState.sidecar_child: Option<SidecarProcess>
    shutting_down,   \* AppState.shutting_down
    mutex,           \* Option<caller>: holder of the sidecar_child lock
    kpc,             \* per caller: position inside kill_sidecar
    process,         \* per caller: the local `process` of kill_sidecar
    elapsed,         \* per caller: start.elapsed() of the liveness loop
    readyElapsed,    \* start.elapsed() of check_server_started (0 outside it)
    spawned,         \* the sidecar process was started
    alive,           \* the sidecar process exists
    listening,       \* the sidecar accepts TCP connections on the port
    termSent,        \* graceful-terminate requests issued for the PID
    pidForceKills,   \* taskkill /F requests sent to the PID (Windows)
    childKills,      \* calls of CommandChild::kill() on the sidecar's handle
    observedDead,    \* a liveness probe reported the sidecar gone
    actors,          \* callers that sent a signal, probed liveness or killed
    outcome,         \* per caller: how its kill_sidecar call ended
    appExitCalled,   \* the quit handler called app.exit(0)
    stateDropped,    \* AppState was dropped at process exit
    termFailed,      \* the graceful-terminate request could not be sent
    probeRan,        \* some liveness probe ran and reported a status
    navLog           \* navigation requests the window's filter has decided

vars == <<mode, platform, busy, stage, negotiated, port, failure, exitCode,
          windowCreated, sidecar_child, shutting_down, mutex, kpc, process, elapsed,
          readyElapsed, spawned, alive, listening, termSent, pidForceKills,
          childKills, observedDead, actors, outcome, appExitCalled,
          stateDropped, termFailed, probeRan, navLog>>

\* Groups used in UNCHANGED clauses.
launchVars == <<mode, platform, busy>>

setupVars == <<stage, negotiated, port, failure, exitCode, windowCreated,
               readyElapsed>>

stateVars == <<sidecar_child, shutting_down, mutex>>

killVars == <<kpc, process, elapsed, outcome>>

sidecarVars == <<spawned, alive, listening>>

effectVars == <<termSent, pidForceKills, childKills, observedDead, actors>>

exitVars == <<appExitCalled, stateDropped>>

navVars == <<navLog>>

faultVars == <<termFailed, probeRan>>

\* ------------------------------------------------------------ pure functions

\* Mutant of bind_ok: the result of the bind is not looked at.
bind_unchecked(p, busySet) == TRUE

\* TcpListener::bind(("127.0.0.1", port)) succeeds iff nothing holds the port.
bind_ok(p, busySet) == p \notin busySet

\* The for loop of find_free_port from index i on: the first preferred port
\* that binds, or None when every remaining one is in use.
RECURSIVE first_preferred(_, _)
first_preferred(i, busySet) ==
    IF i > Len(PREFERRED_PORTS) THEN None
    ELSE IF bind_ok(PREFERRED_PORTS[i], busySet) THEN Some(PREFERRED_PORTS[i])
    ELSE first_preferred(i + 1, busySet)

\* Outcomes of the fallback: the bind to port 0 fails, local_addr() fails on
\* the bound listener, or the OS assigned a port.
EphemeralOutcomes ==
    {[kind |-> "bind_failed", port |-> 0], [kind |-> "addr_failed", port |-> 0]}
        \cup {[kind |-> "assigned", port |-> p] : p \in EphemeralPorts}

ephemeral_port(eph) ==
    IF eph.kind = "bind_failed"
    THEN [ok |-> FALSE, port |-> None, err |-> "Failed to bind to ephemeral port"]
    ELSE IF eph.kind = "addr_failed"
    THEN [ok |-> FALSE, port |-> None, err |-> "Failed to get local address"]
    ELSE [ok |-> TRUE, port |-> Some(eph.port), err |-> ""]

find_free_port(busySet, eph) ==
    LET pref == first_preferred(1, busySet)
    IN  IF pref # None
        THEN [ok |-> TRUE, port |-> pref, err |-> ""]
        ELSE ephemeral_port(eph)

\* url.host_str() of the navigation requests tried: no host, the two local
\* hosts, and hosts that are not local.
Hosts ==
    {None, Some("localhost"), Some("127.0.0.1"), Some("example.com"),
     Some("localhost.example.com"), Some("[::1]")}

\* on_navigation closure of run_dev_mode: whether the load goes on in the
\* window, and the number of open_in_system_browser calls made.
on_navigation_dev(host) ==
    IF host = Some("localhost") \/ host = Some("127.0.0.1")
    THEN [allow |-> TRUE, opened |-> 0]
    ELSE [allow |-> FALSE, opened |-> 1]

\* Mutant of on_navigation_prod: any host that starts with "localhost" is
\* let through.
on_navigation_prefix(host) ==
    IF host \in {Some("localhost"), Some("127.0.0.1"), Some("localhost.example.com")}
    THEN [allow |-> TRUE, opened |-> 0]
    ELSE [allow |-> FALSE, opened |-> 1]

\* on_navigation closure of run_production_mode.
on_navigation_prod(host) ==
    IF host = Some("localhost") \/ host = Some("127.0.0.1")
    THEN [allow |-> TRUE, opened |-> 0]
    ELSE [allow |-> FALSE, opened |-> 1]

\* Mutant of swap: a store that reports the flag as not yet set.
swap_blind(flag, new) == [old |-> FALSE, now |-> new]

\* Mutant of swap: the flag is flipped instead of set.
swap_toggle(flag, new) == [old |-> flag, now |-> ~flag]

\* AtomicBool::swap(new): the previous value and the value stored.
swap(flag, new) == [old |-> flag, now |-> new]

\* Mutant of take: the value is copied out and stays in place.
take_keep(opt) == [value |-> opt, left |-> opt]

\* Option::take(): the value moved out, and what is left behind.
take(opt) == [value |-> opt, left |-> None]

\* The SidecarProcess start_server stores.
SidecarProcess == [child |-> Some("child"), pid |-> Some("pid")]

\* impl Drop for SidecarProcess: the number of child.kill() calls dropping p makes.
drop_kills(p) == IF p.child # None THEN 1 ELSE 0

\* Dropping an Option<SidecarProcess>.
drop_option_kills(opt) == IF opt = None THEN 0 ELSE drop_kills(opt[1])

\* Mutant of next_elapsed: the clock is read once, before the loop.
next_elapsed_frozen(e, poll, k) == e

\* start.elapsed() after one more iteration that slept `poll`.
next_elapsed(e, poll, k) == e + poll * (1 + k)

\* ---------------------------------------------------------------------- Init

Init ==
    /\ mode \in {"prod", "dev"}
    /\ platform \in {"unix", "windows"}
    /\ busy \in SUBSET {PREFERRED_PORTS[i] : i \in 1..Len(PREFERRED_PORTS)}
    /\ stage = "Main"
    /\ negotiated = None
    /\ port = None
    /\ failure = "none"
    /\ exitCode = None
    /\ windowCreated = FALSE
    /\ sidecar_child = None
    /\ shutting_down = FALSE
    /\ mutex = None
    /\ kpc = [c \in Callers |-> "idle"]
    /\ process = [c \in Callers |-> None]
    /\ elapsed = [c \in Callers |-> 0]
    /\ readyElapsed = 0
    /\ spawned = FALSE
    /\ alive = FALSE
    /\ listening = FALSE
    /\ termSent = 0
    /\ pidForceKills = 0
    /\ childKills = 0
    /\ observedDead = FALSE
    /\ actors = {}
    /\ outcome = [c \in Callers |-> "none"]
    /\ appExitCalled = FALSE
    /\ stateDropped = FALSE
    /\ termFailed = FALSE
    /\ probeRan = FALSE
    /\ navLog = << >>

\* ------------------------------------------------------------------- startup

\* Mutant of Main: dev_mode() is not consulted.
MainIgnoringDevMode ==
    /\ stage = "Main"
    /\ stage' = "Negotiating"
    /\ UNCHANGED <<launchVars, navVars, faultVars, negotiated, port, failure, exitCode, windowCreated,
                   readyElapsed, stateVars, killVars, sidecarVars, effectVars,
                   exitVars>>

\* main(): dev_mode() selects run_dev_mode or run_production_mode.
Main ==
    /\ stage = "Main"
    /\ stage' = IF mode = "dev" THEN "DevSetup" ELSE "Negotiating"
    /\ UNCHANGED <<launchVars, navVars, faultVars, negotiated, port, failure, exitCode, windowCreated,
                   readyElapsed, stateVars, killVars, sidecarVars, effectVars,
                   exitVars>>

\* LITESKILL_PORT parsed as u16, else 4000.
DevPorts == {4000, 4001}

\* run_dev_mode: the setup closure builds the window; a build error leaves
\* run() with an error and the process panics on expect().
DevSetup ==
    /\ stage = "DevSetup"
    /\ \E p \in DevPorts, ok \in BOOLEAN :
          /\ port' = Some(p)
          /\ IF ok
             THEN /\ windowCreated' = TRUE
                  /\ stage' = "Running"
                  /\ exitCode' = exitCode
             ELSE /\ windowCreated' = windowCreated
                  /\ stage' = "Terminated"
                  /\ exitCode' = Some(101)
    /\ UNCHANGED <<launchVars, navVars, faultVars, negotiated, failure, readyElapsed, stateVars,
                   killVars, sidecarVars, effectVars, exitVars>>

\* The dev-mode event loop ends; no handler is registered.
DevExit ==
    /\ mode = "dev"
    /\ stage = "Running"
    /\ stage' = "Terminated"
    /\ exitCode' = Some(0)
    /\ UNCHANGED <<launchVars, navVars, faultVars, negotiated, port, failure, windowCreated, readyElapsed,
                   stateVars, killVars, sidecarVars, effectVars, exitVars>>

\* setup closure, first step: find_free_port(), and its error arm.
Negotiate ==
    /\ stage = "Negotiating"
    /\ \E eph \in EphemeralOutcomes :
          LET r == find_free_port(busy, eph)
          IN  /\ negotiated' = Some(r)
              /\ IF r.ok
                 THEN /\ port' = r.port
                      /\ stage' = "Spawning"
                      /\ UNCHANGED <<failure, exitCode>>
                 ELSE /\ port' = port
                      /\ failure' = "negotiation"
                      /\ exitCode' = Some(1)
                      /\ stage' = "Terminated"
    /\ UNCHANGED <<launchVars, navVars, faultVars, windowCreated, readyElapsed, stateVars,
                   killVars, sidecarVars, effectVars, exitVars>>

\* start_server stores the spawned child and its pid in the slot.
start_server_store(slot) == Some(SidecarProcess)

\* setup closure, second step: start_server(app.handle(), port), and its
\* error arm (sidecar() or spawn() failed: nothing was started or stored).
Spawn ==
    /\ stage = "Spawning"
    /\ \E ok \in BOOLEAN :
          IF ok
          THEN /\ mutex = None
               /\ sidecar_child' = start_server_store(sidecar_child)
               /\ spawned' = TRUE
               /\ alive' = TRUE
               /\ stage' = "AwaitingReady"
               /\ UNCHANGED <<failure, exitCode>>
          ELSE /\ failure' = "spawn"
               /\ exitCode' = Some(1)
               /\ stage' = "Terminated"
               /\ UNCHANGED <<sidecar_child, spawned, alive>>
    /\ UNCHANGED <<launchVars, navVars, faultVars, negotiated, port, windowCreated, readyElapsed,
                   shutting_down, mutex, killVars, listening, effectVars,
                   exitVars>>

\* TcpStream::connect(&addr).is_ok()
connect_ok == listening

\* Mutant of CheckServerStarted: the timeout error is dropped and setup goes
\* on to build the window.
CheckServerStartedIgnoringTimeout ==
    /\ stage = "AwaitingReady"
    /\ \E k \in 0..MaxOverhead :
          IF connect_ok \/ readyElapsed >= SERVER_READY_TIMEOUT
          THEN /\ stage' = "CreatingWindow"
               /\ readyElapsed' = 0
               /\ UNCHANGED failure
          ELSE /\ readyElapsed' = next_elapsed(readyElapsed, SERVER_READY_POLL, k)
               /\ UNCHANGED <<stage, failure>>
    /\ UNCHANGED <<launchVars, navVars, faultVars, negotiated, port, exitCode, windowCreated, stateVars,
                   killVars, sidecarVars, effectVars, exitVars>>

\* Mutant of CheckServerStarted: on timeout the probe itself takes the handle
\* out of the slot and kills it.
CheckServerStartedKillingOnTimeout ==
    /\ stage = "AwaitingReady"
    /\ \E k \in 0..MaxOverhead :
          IF connect_ok
          THEN /\ stage' = "CreatingWindow"
               /\ readyElapsed' = 0
               /\ UNCHANGED <<failure, sidecar_child, childKills, alive, listening>>
          ELSE IF readyElapsed >= SERVER_READY_TIMEOUT
          THEN /\ stage' = "ReadyFailed"
               /\ failure' = "ready"
               /\ readyElapsed' = 0
               /\ sidecar_child' = None
               /\ childKills' = childKills + drop_option_kills(sidecar_child)
               /\ alive' = FALSE
               /\ listening' = FALSE
          ELSE /\ readyElapsed' = next_elapsed(readyElapsed, SERVER_READY_POLL, k)
               /\ UNCHANGED <<stage, failure, sidecar_child, childKills, alive,
                              listening>>
    /\ UNCHANGED <<launchVars, navVars, faultVars, negotiated, port, exitCode,
                   windowCreated, shutting_down, mutex, killVars, spawned,
                   termSent, pidForceKills, observedDead, actors, exitVars>>

\* Mutant of CheckServerStarted: the elapsed time is compared with the poll
\* interval instead of the timeout.
CheckServerStartedEarlyTimeout ==
    /\ stage = "AwaitingReady"
    /\ \E k \in 0..MaxOverhead :
          IF connect_ok
          THEN /\ stage' = "CreatingWindow"
               /\ readyElapsed' = 0
               /\ UNCHANGED failure
          ELSE IF readyElapsed >= SERVER_READY_POLL
          THEN /\ stage' = "ReadyFailed"
               /\ failure' = "ready"
               /\ readyElapsed' = 0
          ELSE /\ readyElapsed' = next_elapsed(readyElapsed, SERVER_READY_POLL, k)
               /\ UNCHANGED <<stage, failure>>
    /\ UNCHANGED <<launchVars, navVars, faultVars, negotiated, port, exitCode, windowCreated, stateVars,
                   killVars, sidecarVars, effectVars, exitVars>>

\* One iteration of the loop of check_server_started(port), and what the
\* setup closure does with its result.
CheckServerStarted ==
    /\ stage = "AwaitingReady"
    /\ \E k \in 0..MaxOverhead :
          IF connect_ok
          THEN /\ stage' = "CreatingWindow"
               /\ readyElapsed' = 0
               /\ UNCHANGED failure
          ELSE IF readyElapsed >= SERVER_READY_TIMEOUT
          THEN /\ stage' = "ReadyFailed"
               /\ failure' = "ready"
               /\ readyElapsed' = 0
          ELSE /\ readyElapsed' = next_elapsed(readyElapsed, SERVER_READY_POLL, k)
               /\ UNCHANGED <<stage, failure>>
    /\ UNCHANGED <<launchVars, navVars, faultVars, negotiated, port, exitCode, windowCreated, stateVars,
                   killVars, sidecarVars, effectVars, exitVars>>

\* setup closure, last step: WebviewWindowBuilder::new(..).build().
CreateWindow ==
    /\ stage = "CreatingWindow"
    /\ \E ok \in BOOLEAN :
          IF ok
          THEN /\ windowCreated' = TRUE
               /\ stage' = "Running"
               /\ UNCHANGED failure
          ELSE /\ windowCreated' = windowCreated
               /\ stage' = "WindowFailed"
               /\ failure' = "window"
    /\ UNCHANGED <<launchVars, navVars, faultVars, negotiated, port, exitCode, readyElapsed, stateVars,
                   killVars, sidecarVars, effectVars, exitVars>>

\* A call of kill_sidecar by caller c. app.try_state::<AppState>() is None
\* only when no AppState is managed, which is the case in dev mode alone.
call_kill_sidecar(c) ==
    kpc' = [kpc EXCEPT ![c] = IF mode = "prod" THEN "swap" ELSE "done"]

\* Mutant of ReadinessErrorArm: the arm exits without calling kill_sidecar.
ReadinessErrorArmNoKill ==
    /\ stage = "ReadyFailed"
    /\ stage' = "Terminated"
    /\ exitCode' = Some(1)
    /\ UNCHANGED <<launchVars, navVars, faultVars, negotiated, port, failure, windowCreated,
                   readyElapsed, stateVars, killVars, sidecarVars, effectVars,
                   exitVars>>

\* Error arm of check_server_started: kill_sidecar(app.handle()).
ReadinessErrorArm ==
    /\ stage = "ReadyFailed"
    /\ kpc["setup"] = "idle"
    /\ call_kill_sidecar("setup")
    /\ UNCHANGED <<launchVars, navVars, faultVars, setupVars, stateVars, process, elapsed, outcome,
                   sidecarVars, effectVars, exitVars>>

\* Mutant of WindowErrorArm: the arm exits without calling kill_sidecar.
WindowErrorArmNoKill ==
    /\ stage = "WindowFailed"
    /\ stage' = "Terminated"
    /\ exitCode' = Some(1)
    /\ UNCHANGED <<launchVars, navVars, faultVars, negotiated, port, failure, windowCreated,
                   readyElapsed, stateVars, killVars, sidecarVars, effectVars,
                   exitVars>>

\* Error arm of the window build: kill_sidecar(app.handle()).
WindowErrorArm ==
    /\ stage = "WindowFailed"
    /\ kpc["setup"] = "idle"
    /\ call_kill_sidecar("setup")
    /\ UNCHANGED <<launchVars, navVars, faultVars, setupVars, stateVars, process, elapsed, outcome,
                   sidecarVars, effectVars, exitVars>>

\* Both error arms, after kill_sidecar returned: the dialog, then
\* std::process::exit(1) (no destructor runs).
StartupExit ==
    /\ stage \in {"ReadyFailed", "WindowFailed"}
    /\ kpc["setup"] = "done"
    /\ stage' = "Terminated"
    /\ exitCode' = Some(1)
    /\ UNCHANGED <<launchVars, navVars, faultVars, negotiated, port, failure, windowCreated, readyElapsed,
                   stateVars, killVars, sidecarVars, effectVars, exitVars>>

\* -------------------------------------------------------------- kill_sidecar

\* if state.shutting_down.swap(true, SeqCst) { return; }
KS_Swap(c) ==
    /\ stage # "Terminated"
    /\ kpc[c] = "swap"
    /\ LET r == swap(shutting_down, TRUE)
       IN  /\ shutting_down' = r.now
           /\ IF r.old
              THEN /\ kpc' = [kpc EXCEPT ![c] = "done"]
                   /\ outcome' = [outcome EXCEPT ![c] = "noop"]
              ELSE /\ kpc' = [kpc EXCEPT ![c] = "lock"]
                   /\ outcome' = outcome
    /\ UNCHANGED <<launchVars, navVars, faultVars, setupVars, sidecar_child, mutex, process,
                   elapsed, sidecarVars, effectVars, exitVars>>

\* state.sidecar_child.lock(), then guard.take(); the guard lives until
\* kill_sidecar returns. With no handle in the slot the call returns at once.
KS_Take(c) ==
    /\ stage # "Terminated"
    /\ kpc[c] = "lock"
    /\ mutex = None
    /\ LET t == take(sidecar_child)
       IN  /\ sidecar_child' = t.left
           /\ IF t.value = None
              THEN /\ mutex' = None
                   /\ kpc' = [kpc EXCEPT ![c] = "done"]
                   /\ outcome' = [outcome EXCEPT ![c] = "empty"]
                   /\ process' = process
              ELSE /\ mutex' = Some(c)
                   /\ process' = [process EXCEPT ![c] = t.value]
                   /\ kpc' = [kpc EXCEPT ![c] =
                                 IF t.value[1].pid # None THEN "term" ELSE "kill"]
                   /\ outcome' = outcome
    /\ UNCHANGED <<launchVars, navVars, faultVars, setupVars, shutting_down, elapsed, sidecarVars,
                   effectVars, exitVars>>

\* The graceful request to the PID (kill -TERM / taskkill /PID), result
\* ignored, then start = Instant::now().
KS_Term(c) ==
    /\ stage # "Terminated"
    /\ kpc[c] = "term"
    /\ termSent' = termSent + 1
    /\ \E sent \in BOOLEAN : termFailed' = ~sent
    /\ actors' = actors \cup {c}
    /\ elapsed' = [elapsed EXCEPT ![c] = 0]
    /\ kpc' = [kpc EXCEPT ![c] = "poll"]
    /\ UNCHANGED <<launchVars, navVars, probeRan, setupVars, stateVars, process, outcome,
                   sidecarVars, pidForceKills, childKills, observedDead,
                   exitVars>>

\* Results of the liveness probe (kill -0 / tasklist): the command could not
\* be run, or it ran and reported whether the PID exists.
ProbeResults == {"err", "ran"}

\* Mutant of probe_gone: a probe that could not be run counts as gone.
probe_gone_or_failed(result) == result = "err" \/ ~alive

\* The probe ran and reported the process gone.
probe_gone(result) == result = "ran" /\ ~alive

\* One iteration of the liveness loop while the timeout has not elapsed. When
\* the probe reports the process gone, kill_sidecar returns: `process` is
\* dropped (SidecarProcess::drop), then the guard.
KS_Probe(c) ==
    /\ stage # "Terminated"
    /\ kpc[c] = "poll"
    /\ elapsed[c] < GRACEFUL_SHUTDOWN_TIMEOUT
    /\ actors' = actors \cup {c}
    /\ \E result \in ProbeResults, k \in 0..MaxOverhead :
          /\ probeRan' = (probeRan \/ result = "ran")
          /\ IF probe_gone(result)
             THEN /\ observedDead' = TRUE
                  /\ childKills' = childKills + drop_option_kills(process[c])
                  /\ process' = [process EXCEPT ![c] = None]
                  /\ mutex' = None
                  /\ kpc' = [kpc EXCEPT ![c] = "done"]
                  /\ outcome' = [outcome EXCEPT ![c] = "graceful"]
                  /\ elapsed' = elapsed
             ELSE /\ elapsed' = [elapsed EXCEPT ![c] =
                                    next_elapsed(elapsed[c], SHUTDOWN_POLL, k)]
                  /\ UNCHANGED <<observedDead, childKills, process, mutex, kpc,
                                 outcome>>
    /\ UNCHANGED <<launchVars, navVars, termFailed, setupVars, sidecar_child, shutting_down,
                   sidecarVars, termSent, pidForceKills, exitVars>>

\* The loop condition fails: "Graceful shutdown timeout, forcing kill...".
KS_Timeout(c) ==
    /\ stage # "Terminated"
    /\ kpc[c] = "poll"
    /\ elapsed[c] >= GRACEFUL_SHUTDOWN_TIMEOUT
    /\ kpc' = [kpc EXCEPT ![c] = IF platform = "windows" THEN "force_pid" ELSE "kill"]
    /\ UNCHANGED <<launchVars, navVars, faultVars, setupVars, stateVars, process, elapsed, outcome,
                   sidecarVars, effectVars, exitVars>>

\* Windows only: taskkill /F /PID.
KS_ForcePid(c) ==
    /\ stage # "Terminated"
    /\ kpc[c] = "force_pid"
    /\ pidForceKills' = pidForceKills + 1
    /\ actors' = actors \cup {c}
    /\ alive' = FALSE
    /\ listening' = FALSE
    /\ kpc' = [kpc EXCEPT ![c] = "kill"]
    /\ UNCHANGED <<launchVars, navVars, faultVars, setupVars, stateVars, process, elapsed, outcome,
                   spawned, termSent, childKills, observedDead, exitVars>>

\* Mutant of force_kill: the child is killed through a reference and stays
\* in `process`.
force_kill_by_ref(p) ==
    [kills |-> IF p.child # None THEN 1 ELSE 0, process |-> p]

\* if let Some(child) = process.child.take() { child.kill() }: the number of
\* kills issued and the process value afterwards.
force_kill(p) ==
    LET t == take(p.child)
    IN  [kills |-> IF t.value # None THEN 1 ELSE 0,
         process |-> [p EXCEPT !.child = t.left]]

\* The fallback kill on the handle, then the return of kill_sidecar:
\* `process` is dropped, then the guard.
KS_Kill(c) ==
    /\ stage # "Terminated"
    /\ kpc[c] = "kill"
    /\ LET f == force_kill(process[c][1])
       IN  /\ childKills' = childKills + f.kills + drop_kills(f.process)
           /\ actors' = IF f.kills > 0 THEN actors \cup {c} ELSE actors
    /\ alive' = FALSE
    /\ listening' = FALSE
    /\ process' = [process EXCEPT ![c] = None]
    /\ mutex' = None
    /\ kpc' = [kpc EXCEPT ![c] = "done"]
    /\ outcome' = [outcome EXCEPT ![c] = "forced"]
    /\ UNCHANGED <<launchVars, navVars, faultVars, setupVars, sidecar_child, shutting_down,
                   elapsed, spawned, termSent, pidForceKills, observedDead,
                   exitVars>>

\* ------------------------------------------------------------ event handlers

\* The handlers are registered by run_production_mode and run once the
\* window exists. kill_sidecar guards itself with an atomic flag and a mutex,
\* that is, it is written for callers on different threads: the handlers are
\* callers whose kill_sidecar calls may overlap (runs in which each call
\* returns before the next starts are among the behaviours).
HandlersLive == mode = "prod" /\ stage = "Running"

\* on_menu_event, id "quit": kill_sidecar(app) ...
QuitMenu ==
    /\ HandlersLive
    /\ kpc["quit"] = "idle"
    /\ call_kill_sidecar("quit")
    /\ UNCHANGED <<launchVars, navVars, faultVars, setupVars, stateVars, process, elapsed, outcome,
                   sidecarVars, effectVars, exitVars>>

\* Mutant of QuitAppExit: app.exit(0) does not wait for kill_sidecar.
QuitAppExitEarly ==
    /\ HandlersLive
    /\ kpc["quit"] # "idle"
    /\ ~appExitCalled
    /\ appExitCalled' = TRUE
    /\ UNCHANGED <<launchVars, navVars, faultVars, setupVars, stateVars, killVars, sidecarVars,
                   effectVars, stateDropped>>

\* ... then app.exit(0).
QuitAppExit ==
    /\ HandlersLive
    /\ kpc["quit"] = "done"
    /\ ~appExitCalled
    /\ appExitCalled' = TRUE
    /\ UNCHANGED <<launchVars, navVars, faultVars, setupVars, stateVars, killVars, sidecarVars,
                   effectVars, stateDropped>>

\* on_window_event, CloseRequested: kill_sidecar(&window.app_handle()).
CloseRequested ==
    /\ HandlersLive
    /\ kpc["close"] = "idle"
    /\ call_kill_sidecar("close")
    /\ UNCHANGED <<launchVars, navVars, faultVars, setupVars, stateVars, process, elapsed, outcome,
                   sidecarVars, effectVars, exitVars>>

\* An exit is requested by app.exit(0) or once the window has closed, which
\* follows the return of its CloseRequested handler.
exit_requested == appExitCalled \/ kpc["close"] = "done"

\* run callback, RunEvent::ExitRequested: kill_sidecar(app_handle).
ExitRequested ==
    /\ HandlersLive
    /\ exit_requested
    /\ kpc["exit"] = "idle"
    /\ call_kill_sidecar("exit")
    /\ UNCHANGED <<launchVars, navVars, faultVars, setupVars, stateVars, process, elapsed, outcome,
                   sidecarVars, effectVars, exitVars>>

\* The ExitRequested handler returned without prevent_exit: Tauri's normal
\* exit proceeds. Whether the managed AppState is dropped on the way out is
\* up to the runtime; dropping it drops the SidecarProcess left in the slot.
ProcessExit ==
    /\ HandlersLive
    /\ kpc["exit"] = "done"
    /\ stage' = "Terminated"
    /\ exitCode' = Some(0)
    /\ \E dropped \in BOOLEAN :
          /\ stateDropped' = dropped
          /\ IF dropped
             THEN /\ childKills' = childKills + drop_option_kills(sidecar_child)
                  /\ sidecar_child' = None
                  /\ alive' = (alive /\ drop_option_kills(sidecar_child) = 0)
                  /\ listening' = (listening /\ drop_option_kills(sidecar_child) = 0)
             ELSE UNCHANGED <<childKills, sidecar_child, alive, listening>>
    /\ UNCHANGED <<launchVars, navVars, faultVars, negotiated, port, failure, windowCreated, readyElapsed,
                   shutting_down, mutex, killVars, spawned, termSent,
                   pidForceKills, observedDead, actors, appExitCalled>>

\* ---------------------------------------------------------------- navigation

\* The webview asks the on_navigation closure of the window that was built
\* about a URL.
Navigate ==
    /\ stage = "Running"
    /\ windowCreated
    /\ Len(navLog) < MaxNavigations
    /\ \E host \in Hosts :
          LET r == IF mode = "dev" THEN on_navigation_dev(host)
                                  ELSE on_navigation_prod(host)
          IN  navLog' = Append(navLog, [host |-> host, allow |-> r.allow,
                                        opened |-> r.opened])
    /\ UNCHANGED <<launchVars, faultVars, setupVars, stateVars, killVars,
                   sidecarVars, effectVars, exitVars>>

\* ------------------------------------------------------------------- sidecar

\* The Phoenix server starts accepting connections on its port.
SidecarListens ==
    /\ stage \notin {"Terminated"}
    /\ alive
    /\ ~listening
    /\ listening' = TRUE
    /\ UNCHANGED <<launchVars, navVars, faultVars, setupVars, stateVars, killVars, spawned, alive,
                   effectVars, exitVars>>

\* The sidecar process ends (on its own, or on the terminate request).
SidecarExits ==
    /\ stage \notin {"Terminated"}
    /\ alive
    /\ alive' = FALSE
    /\ listening' = FALSE
    /\ UNCHANGED <<launchVars, navVars, faultVars, setupVars, stateVars, killVars, spawned,
                   effectVars, exitVars>>

\* ---------------------------------------------------------------------- Next

kill_sidecar(c) ==
    \/ KS_Swap(c)
    \/ KS_Take(c)
    \/ KS_Term(c)
    \/ KS_Probe(c)
    \/ KS_Timeout(c)
    \/ KS_ForcePid(c)
    \/ KS_Kill(c)

Next ==
    \/ Main
    \/ DevSetup
    \/ DevExit
    \/ Negotiate
    \/ Spawn
    \/ CheckServerStarted
    \/ CreateWindow
    \/ ReadinessErrorArm
    \/ WindowErrorArm
    \/ StartupExit
    \/ QuitMenu
    \/ QuitAppExit
    \/ CloseRequested
    \/ ExitRequested
    \/ ProcessExit
    \/ SidecarListens
    \/ SidecarExits
    \/ \E c \in Callers : kill_sidecar(c)

Spec == Init /\ [][Next]_vars

\* A launch up to the running window, and the navigation requests it then
\* decides.
NavNext ==
    \/ Main
    \/ DevSetup
    \/ Negotiate
    \/ Spawn
    \/ SidecarListens
    \/ CheckServerStarted
    \/ CreateWindow
    \/ Navigate

NavSpec == Init /\ [][NavNext]_vars

\* The thread inside check_server_started, and every thread inside
\* kill_sidecar, keeps being scheduled: its next step is taken eventually.
FairSpec ==
    /\ Spec
    /\ WF_vars(CheckServerStarted)
    /\ \A c \in Callers : WF_vars(kill_sidecar(c))

\* kill_sidecar called on either AppState of the setup closure: as .manage()
\* constructs it (slot None, flag false), or after start_server has stored
\* the handle of the running sidecar.
KillSidecarInit ==
    \E stored \in BOOLEAN, eph \in EphemeralOutcomes :
       /\ mode = "prod"
       /\ platform \in {"unix", "windows"}
       /\ busy = {}
       /\ stage = IF stored THEN "AwaitingReady" ELSE "Negotiating"
       /\ negotiated = IF stored THEN Some(find_free_port(busy, eph)) ELSE None
       /\ port = IF stored THEN find_free_port(busy, eph).port ELSE None
       /\ failure = "none"
       /\ exitCode = None
       /\ windowCreated = FALSE
       /\ sidecar_child = IF stored THEN start_server_store(None) ELSE None
       /\ shutting_down = FALSE
       /\ mutex = None
       /\ kpc = [c \in Callers |-> "idle"]
       /\ process = [c \in Callers |-> None]
       /\ elapsed = [c \in Callers |-> 0]
       /\ readyElapsed = 0
       /\ spawned = stored
       /\ alive = stored
       /\ listening = FALSE
       /\ termSent = 0
       /\ pidForceKills = 0
       /\ childKills = 0
       /\ observedDead = FALSE
       /\ actors = {}
       /\ outcome = [c \in Callers |-> "none"]
       /\ appExitCalled = FALSE
       /\ stateDropped = FALSE
       /\ termFailed = FALSE
       /\ probeRan = FALSE
       /\ navLog = << >>

\* A thread enters kill_sidecar(app); try_state finds the managed AppState.
KillSidecarCall(c) ==
    /\ kpc[c] = "idle"
    /\ call_kill_sidecar(c)
    /\ UNCHANGED <<launchVars, navVars, faultVars, setupVars, stateVars, process,
                   elapsed, outcome, sidecarVars, effectVars, exitVars>>

KillSidecarNext ==
    \/ \E c \in Callers : KillSidecarCall(c)
    \/ \E c \in Callers : kill_sidecar(c)
    \/ SidecarExits

KillSidecarSpec == KillSidecarInit /\ [][KillSidecarNext]_vars

\* -------------------------------------------------------------------- claims

\* Positions inside the termination sequence of kill_sidecar.
InSequence == {"lock", "term", "poll", "force_pid", "kill"}

\* Callers that got past the shutting_down guard.
Winners ==
    {c \in Callers : kpc[c] \in InSequence
                     \/ outcome[c] \in {"empty", "graceful", "forced"}}

\* C1: of any number of kill_sidecar calls on a spawned sidecar, in any
\* interleaving, exactly one gets past the guard and runs the termination
\* sequence: the terminate signal is sent at most once, child.kill() is
\* issued at most once in total, and every call that found the flag set
\* returned without signalling, probing or killing.
C1_ExactlyOneShutdown ==
    /\ Cardinality(Winners) <= 1
    /\ (shutting_down => Cardinality(Winners) = 1)
    /\ termSent <= 1
    /\ childKills <= 1
    /\ actors \subseteq Winners
    /\ \A c \in Callers : outcome[c] = "noop" => c \notin actors

C1_Witness ==
    \E c, d \in Callers :
        /\ outcome[c] = "forced"
        /\ outcome[d] = "noop"
        /\ termSent = 1
        /\ childKills = 1

\* C2: whenever a kill_sidecar call has returned, the slot sidecar_child is
\* None.
C2_SlotEmptyOnReturn ==
    \A c \in Callers : kpc[c] = "done" => sidecar_child = None

\* C3: once a liveness probe has observed the sidecar gone during the
\* graceful window, no child.kill() is issued for it, neither explicitly nor
\* through SidecarProcess::drop.
C3_NoKillAfterGracefulExit ==
    observedDead => childKills = 0

\* C4: when the graceful-shutdown timeout elapses without the sidecar having
\* been observed gone, kill_sidecar issues exactly one child.kill() on the
\* owned handle, not before the timeout, and returns with it.
C4_TimeoutOneForcedKill ==
    \A c \in Callers :
        /\ kpc[c] \in {"force_pid", "kill"} =>
              /\ elapsed[c] >= GRACEFUL_SHUTDOWN_TIMEOUT
              /\ childKills = 0
        /\ outcome[c] = "forced" =>
              /\ childKills = 1
              /\ kpc[c] = "done"
              /\ process[c] = None
              /\ ~observedDead

C4_Witness ==
    \E c \in Callers :
        /\ outcome[c] = "forced"
        /\ elapsed[c] >= GRACEFUL_SHUTDOWN_TIMEOUT
        /\ termSent = 1

\* C5: child.kill() is called at most once for the sidecar's handle on every
\* path: graceful exit, timeout escalation, and drop without shutdown.
C5_AtMostOneChildKill ==
    /\ childKills <= 1
    /\ childKills = 1 => (sidecar_child = None /\ \A c \in Callers : process[c] = None)

C5_Witness ==
    /\ stateDropped
    /\ childKills = 1
    /\ termSent = 0

\* C6: when a shutdown trigger (quit, window close, exit request) lets the
\* process go on to exit, the shutdown sequence has completed: no
\* kill_sidecar call is still signalling, polling or killing, and the
\* sidecar is gone or has had a forced kill issued.
C6_ExitAfterShutdownCompleted ==
    (mode = "prod" /\ (appExitCalled \/ exitCode = Some(0))) =>
        /\ \A c \in Callers : kpc[c] \notin InSequence
        /\ (~alive \/ childKills >= 1)

C8_FailedStartupShutsSidecarDown ==
    (exitCode = Some(1) /\ spawned) =>
        /\ failure \in {"ready", "window"}
        /\ termSent = 1
        /\ \/ outcome["setup"] = "graceful" /\ observedDead
           \/ outcome["setup"] = "forced" /\ childKills = 1 /\ ~alive
        /\ sidecar_child = None

C8_Witness ==
    /\ exitCode = Some(1)
    /\ failure = "ready"
    /\ outcome["setup"] = "forced"
    /\ ~alive

\* The stage changes production-mode startup can make.
StartupOrder ==
    {<<"Main", "Negotiating">>, <<"Negotiating", "Spawning">>,
     <<"Spawning", "AwaitingReady">>, <<"AwaitingReady", "CreatingWindow">>,
     <<"CreatingWindow", "Running">>,
     <<"Negotiating", "Terminated">>, <<"Spawning", "Terminated">>,
     <<"AwaitingReady", "ReadyFailed">>, <<"CreatingWindow", "WindowFailed">>,
     <<"ReadyFailed", "Terminated">>, <<"WindowFailed", "Terminated">>,
     <<"Running", "Terminated">>}

\* C9: production startup advances only in the order Negotiating, Spawning,
\* AwaitingReady, Running: the sidecar is spawned only after a port was
\* chosen, readiness is probed only after a successful spawn, the window is
\* created only after the probe connected, and no window is created after
\* a negotiation error, spawn error or readiness timeout.
C9_StartupOrder ==
    /\ [](mode = "prod" =>
            /\ spawned => port # None
            /\ stage \in {"AwaitingReady", "CreatingWindow"} =>
                  (spawned /\ sidecar_child # None /\ failure = "none")
            /\ windowCreated => (spawned /\ port # None /\ failure = "none")
            /\ failure # "none" => ~windowCreated)
    /\ [][mode = "prod" =>
            /\ stage' # stage => <<stage, stage'>> \in StartupOrder
            /\ (spawned' /\ ~spawned) => (stage = "Spawning" /\ port # None)
            /\ stage' = "CreatingWindow" /\ stage # "CreatingWindow" =>
                  (stage = "AwaitingReady" /\ connect_ok)
            /\ (windowCreated' /\ ~windowCreated) => stage = "CreatingWindow"]_vars

C9_Witness ==
    /\ mode = "prod"
    /\ stage = "Running"
    /\ windowCreated
    /\ port = Some(3000)

\* The preferred ports as a set, and the index of the first one free.
PreferredSet == {PREFERRED_PORTS[i] : i \in 1..Len(PREFERRED_PORTS)}

FirstFree(i) ==
    /\ PREFERRED_PORTS[i] \notin busy
    /\ \A j \in 1..(i - 1) : PREFERRED_PORTS[j] \in busy

\* C10 as stated: find_free_port returns the first preferred port that is
\* not busy, the ephemeral port when all are busy, an error only if the
\* ephemeral bind fails, and never a preferred port whose bind failed.
C10_FirstFreePortOrBindError ==
    negotiated # None =>
        LET r == negotiated[1]
        IN  /\ \A i \in 1..Len(PREFERRED_PORTS) :
                  FirstFree(i) => (r.ok /\ r.port = Some(PREFERRED_PORTS[i]))
            /\ (busy = PreferredSet /\ r.ok) => r.port[1] \in EphemeralPorts
            /\ ~r.ok => r.err = "Failed to bind to ephemeral port"
            /\ r.ok => r.port[1] \notin busy

\* C10 as amended: as stated, except that the error is returned only if the
\* ephemeral bind fails or the local address of the bound listener cannot
\* be read, and only when every preferred port is busy.
C10_FirstFreePort ==
    negotiated # None =>
        LET r == negotiated[1]
        IN  /\ \A i \in 1..Len(PREFERRED_PORTS) :
                  FirstFree(i) => (r.ok /\ r.port = Some(PREFERRED_PORTS[i]))
            /\ (busy = PreferredSet /\ r.ok) => r.port[1] \in EphemeralPorts
            /\ ~r.ok =>
                  /\ busy = PreferredSet
                  /\ r.err \in {"Failed to bind to ephemeral port",
                                "Failed to get local address"}
            /\ r.ok => (r.port # None /\ r.port[1] \notin busy)

C10_Witness ==
    /\ negotiated # None
    /\ busy = {4000, 3000}
    /\ negotiated[1].ok
    /\ negotiated[1].port = Some(5173)

C12_DevModeBypassesSupervisor ==
    mode = "dev" =>
        /\ stage \in {"Main", "DevSetup", "Running", "Terminated"}
        /\ negotiated = None
        /\ ~spawned
        /\ sidecar_child = None
        /\ ~shutting_down
        /\ readyElapsed = 0
        /\ \A c \in Callers : kpc[c] = "idle" /\ outcome[c] = "none"
        /\ termSent = 0 /\ pidForceKills = 0 /\ childKills = 0
        /\ port # None => port[1] \in DevPorts
        /\ windowCreated => port # None

C12_Witness ==
    /\ mode = "dev"
    /\ stage = "Running"
    /\ windowCreated
    /\ port = Some(4001)

\* C13: the navigation filter lets a request load in the window iff the
\* URL's host is exactly localhost or 127.0.0.1; every other request (one
\* without a host included) is vetoed and handed to the system browser
\* exactly once; the dev-mode and production-mode filters decide alike.
C13_NavigationFilter ==
    /\ \A i \in 1..Len(navLog) :
          LET n == navLog[i]
          IN  /\ n.allow <=> n.host \in {Some("localhost"), Some("127.0.0.1")}
              /\ n.opened = IF n.allow THEN 0 ELSE 1
    /\ \A h \in Hosts : on_navigation_dev(h) = on_navigation_prod(h)

C13_Witness ==
    /\ Len(navLog) = 2
    /\ navLog[1] = [host |-> Some("127.0.0.1"), allow |-> TRUE, opened |-> 0]
    /\ navLog[2] = [host |-> None, allow |-> FALSE, opened |-> 1]

\* Callers whose kill_sidecar call ran the termination sequence and returned.
Finished == {c \in Callers : outcome[c] \in {"graceful", "forced"}}

\* C15 as stated: when the terminate-signal send failed, or every liveness
\* probe failed, the call polled until the graceful-shutdown timeout and
\* issued the forced kill before it returned.
C15_FailuresAlwaysEscalate ==
    \A c \in Finished :
        (termFailed \/ ~probeRan) =>
            /\ outcome[c] = "forced"
            /\ elapsed[c] >= GRACEFUL_SHUTDOWN_TIMEOUT
            /\ childKills >= 1

\* C15 as amended: a failed signal send or a failed probe never ends the
\* call. After a failed send the polling still runs, until a probe that ran
\* reports the sidecar gone or the timeout elapses; when every probe failed,
\* polling went on until the timeout and the forced kill on the handle was
\* issued before the call returned.
C15_FailuresAbsorbed ==
    /\ termFailed =>
          \E c \in Callers : kpc[c] \in {"poll", "force_pid", "kill"} \/ c \in Finished
    /\ \A c \in Finished :
          /\ outcome[c] = "graceful" => (probeRan /\ observedDead)
          /\ outcome[c] = "forced" =>
                (elapsed[c] >= GRACEFUL_SHUTDOWN_TIMEOUT /\ childKills = 1)
          /\ ~probeRan => outcome[c] = "forced"

C15_Witness ==
    \E c \in Finished :
        /\ termFailed
        /\ ~probeRan
        /\ outcome[c] = "forced"
        /\ childKills = 1

\* C14: every kill_sidecar call returns (unless the process exits first),
\* whatever the sidecar does and whichever OS calls fail, for any number of
\* overlapping callers: no probe is made once the graceful-shutdown timeout
\* has elapsed, the loop's clock stays within one iteration of the timeout,
\* and no caller ever waits for the handle mutex.
C14_KillSidecarReturns ==
    /\ \A c \in Callers :
          (kpc[c] \notin {"idle", "done"}) ~> (kpc[c] = "done" \/ stage = "Terminated")
    /\ [][\A c \in Callers :
             (kpc[c] = "poll" /\ elapsed[c] >= GRACEFUL_SHUTDOWN_TIMEOUT) =>
                 (elapsed'[c] = elapsed[c] /\ kpc'[c] \in {"poll", "force_pid", "kill"}
                  /\ observedDead' = observedDead)]_vars
    /\ [](\A c \in Callers :
             /\ elapsed[c] < GRACEFUL_SHUTDOWN_TIMEOUT + SHUTDOWN_POLL * (1 + MaxOverhead)
             /\ kpc[c] = "lock" => mutex = None)

C14_Witness ==
    \E c, d \in Callers :
        /\ platform = "unix"
        /\ outcome[c] = "forced"
        /\ ~probeRan
        /\ outcome[d] = "noop"
        /\ kpc[c] = "done" /\ kpc[d] = "done"

\* C16: whenever a terminate signal or a forced kill has been issued, the
\* slot sidecar_child is already None: kill_sidecar moves the handle into
\* its local `process` before it signals, probes or kills.
C16_HandleTakenBeforeTermination ==
    /\ (termSent > 0 \/ pidForceKills > 0 \/ childKills > 0) => sidecar_child = None
    /\ \A c \in Callers :
          kpc[c] \in {"term", "poll", "force_pid", "kill"} =>
              (sidecar_child = None /\ process[c] # None /\ mutex = Some(c))
    /\ actors # {} => sidecar_child = None

C16_Witness ==
    \E c \in Callers :
        /\ kpc[c] = "poll"
        /\ termSent = 1
        /\ childKills = 0
        /\ sidecar_child = None
        /\ process[c] = Some(SidecarProcess)

\* C17: shutting_down starts false and is never reset once set; once the
\* kill_sidecar call that ran the sequence has returned, the slot is None
\* in every later state; a handle is stored at most once per process
\* lifetime, by start_server, into an empty slot.
C17_FlagMonotonicSlotCleared ==
    /\ [](stage \in {"Main", "Negotiating", "Spawning", "AwaitingReady"} =>
             ~shutting_down)
    /\ [][shutting_down => shutting_down']_vars
    /\ []((\E c \in Callers : outcome[c] \in {"empty", "graceful", "forced"}) =>
             sidecar_child = None)
    /\ [][(sidecar_child' # None /\ sidecar_child' # sidecar_child) =>
             (sidecar_child = None /\ ~spawned /\ stage = "Spawning")]_vars

C17_Witness ==
    \E c, d \in Callers :
        /\ shutting_down
        /\ outcome[c] = "graceful"
        /\ outcome[d] = "noop"
        /\ sidecar_child = None

\* C18: while check_server_started runs, and when it returns (Ok or the
\* timeout error), the handle slot, the shutting_down flag and the handle
\* mutex keep their values, no kill_sidecar call is started and no signal or
\* kill is sent; after a timeout it is the caller that goes on to call
\* kill_sidecar.
C18_ProbeLeavesSupervisorAlone ==
    /\ [][stage = "AwaitingReady" =>
             UNCHANGED <<sidecar_child, shutting_down, mutex, kpc, process,
                         termSent, pidForceKills, childKills, observedDead,
                         actors>>]_vars
    /\ [](stage = "AwaitingReady" \/ (stage = "ReadyFailed" /\ kpc["setup"] = "idle") =>
             /\ sidecar_child = Some(SidecarProcess)
             /\ ~shutting_down
             /\ termSent = 0 /\ pidForceKills = 0 /\ childKills = 0)
    /\ [][(kpc["setup"] = "idle" /\ kpc'["setup"] # "idle") =>
             stage \in {"ReadyFailed", "WindowFailed"}]_vars

C18_Witness ==
    /\ stage = "ReadyFailed"
    /\ kpc["setup"] = "idle"
    /\ sidecar_child = Some(SidecarProcess)
    /\ ~shutting_down
    /\ alive

\* C19: a kill_sidecar call that finds the handle slot empty sends no signal,
\* runs no liveness probe and no kill, leaves the slot empty, releases the
\* lock and returns; shutting_down is set by it, so every other call returns
\* at the flag as a no-op.
C19_EmptySlotCallIsQuiet ==
    /\ [](~spawned =>
             /\ sidecar_child = None
             /\ termSent = 0 /\ pidForceKills = 0 /\ childKills = 0
             /\ ~probeRan /\ actors = {}
             /\ \A c \in Callers : kpc[c] \in {"idle", "swap", "lock", "done"})
    /\ [][\A c \in Callers :
             (sidecar_child = None /\ kpc[c] = "lock" /\ kpc'[c] # "lock") =>
                (kpc'[c] = "done" /\ outcome'[c] = "empty" /\ mutex' = None)]_vars
    /\ [](\A c \in Callers : outcome[c] = "empty" =>
             /\ ~spawned
             /\ shutting_down
             /\ \A d \in Callers \ {c} : outcome[d] \in {"none", "noop"})
    /\ [][\A c, d \in Callers :
             (outcome[c] = "empty" /\ kpc[d] = "swap" /\ kpc'[d] # "swap") =>
                (kpc'[d] = "done" /\ outcome'[d] = "noop")]_vars

C19_Witness ==
    \E c \in Callers :
       /\ outcome[c] = "empty"
       /\ \A d \in Callers \ {c} : outcome[d] = "noop"
       /\ sidecar_child = None
       /\ shutting_down
       /\ termSent = 0

\* C20: on the quit-menu path app.exit(0) is called only after the handler's
\* kill_sidecar has returned; a CloseRequested or ExitRequested handler whose
\* kill_sidecar tests the flag after that return is a no-op; and once the quit
\* handler has performed the shutdown, no terminate signal, forced kill or
\* child kill is issued any more.
C20_QuitPathShutsDownOnce ==
    /\ [](appExitCalled => kpc["quit"] = "done")
    /\ [][\A c \in {"close", "exit"} :
             (kpc["quit"] = "done" /\ kpc[c] = "swap" /\ kpc'[c] # "swap") =>
                (kpc'[c] = "done" /\ outcome'[c] = "noop")]_vars
    /\ [][outcome["quit"] \in {"graceful", "forced", "empty"} =>
             UNCHANGED <<termSent, pidForceKills, childKills>>]_vars

C20_Witness ==
    /\ appExitCalled
    /\ outcome["quit"] \in {"graceful", "forced"}
    /\ outcome["exit"] = "noop"
    /\ outcome["close"] = "noop"
    /\ termSent = 1
    /\ stage = "Terminated"

====
